---- MODULE Spec2Model ----
(***************************************************************************)
(* Model of core/models/__init__.py of Project-Cage: the User permission   *)
(* and credential methods, Article.to_dict, and the five tables with the   *)
(* on_delete policies their foreign keys declare.                          *)
(*                                                                         *)
(* Text is a sequence of code points, a byte string a sequence of 0..255.  *)
(***************************************************************************)
EXTENDS Integers, Sequences, FiniteSets, TLC

(***************************************************************************)
(* Python values                                                           *)
(***************************************************************************)
\* Python's None (a NULL text column, a method that returns nothing) and
\* the values a method hands back, by their repr.
None == "None"

PyBool(b) == IF b THEN "True" ELSE "False"

\* An optional text (a TextField that may hold None): <<>> or <<text>>.
Nothing == <<>>

Some(t) == <<t>>

RECURSIVE Pow2(_)
Pow2(n) == IF n = 0 THEN 1 ELSE 2 * Pow2(n - 1)

\* Python's a & b on unbounded two's-complement integers.
RECURSIVE IntAnd(_, _)
IntAnd(a, b) ==
    IF a = 0 \/ b = 0 THEN 0
    ELSE IF a = -1 THEN b
    ELSE IF b = -1 THEN a
    ELSE (a % 2) * (b % 2) + 2 * IntAnd(a \div 2, b \div 2)

\* Python's bool(n) of an integer.
Bool(n) == PyBool(n # 0)

\* Python's str(n) of an integer: decimal digits, '-' first when negative.
RECURSIVE StrNat(_)
StrNat(n) == IF n < 10 THEN <<48 + n>> ELSE Append(StrNat(n \div 10), 48 + (n % 10))

Str(n) == IF n < 0 THEN <<45>> \o StrNat(0 - n) ELSE StrNat(n)

\* The exception str.encode raises on a text UTF-8 cannot encode.
UnicodeEncodeError == "UnicodeEncodeError"

\* A surrogate code point, U+D800..U+DFFF: no UTF-8 encoding.
Surrogate(c) == c >= 55296 /\ c <= 57343

\* str.encode('utf-8') of one code point.
Utf8Char(c) ==
    IF Surrogate(c) THEN UnicodeEncodeError
    ELSE IF c < 128 THEN <<c>>
    ELSE IF c < 2048 THEN <<192 + (c \div 64), 128 + (c % 64)>>
    ELSE IF c < 65536
         THEN <<224 + (c \div 4096), 128 + ((c \div 64) % 64), 128 + (c % 64)>>
    ELSE <<240 + (c \div 262144), 128 + ((c \div 4096) % 64),
           128 + ((c \div 64) % 64), 128 + (c % 64)>>

\* Whether str.encode returns: the text holds no surrogate.
Encodable(s) == \A i \in 1..Len(s) : ~Surrogate(s[i])

\* The bytes of an encodable text, code point by code point.
RECURSIVE Utf8(_)
Utf8(s) == IF s = <<>> THEN <<>> ELSE Utf8Char(Head(s)) \o Utf8(Tail(s))

\* str.encode('utf-8') and str.encode(): the bytes, or the exception raised.
Encode(s) == IF Encodable(s) THEN Utf8(s) ELSE UnicodeEncodeError

(***************************************************************************)
(* hashlib.sha1                                                            *)
(***************************************************************************)
\* A 32-bit word is <<high half, low half>>, each half in 0..65535.
Half == 65536

\* Rotate a word left by n < 16 bits, given m = 2^n and d = 2^(16-n).
RotlBy(w, m, d) ==
    <<((w[1] * m) % Half) + (w[2] \div d), ((w[2] * m) % Half) + (w[1] \div d)>>

Rotl1(w) == RotlBy(w, 2, 32768)

Rotl5(w) == RotlBy(w, 32, 2048)

\* By 30 bits: by 16, which swaps the halves, then by 14.
Rotl30(w) == RotlBy(<<w[2], w[1]>>, 16384, 4)

\* The sum modulo 2^32 of two and of five words.
Add2(a, b) ==
    LET lo == a[2] + b[2]
    IN  <<(a[1] + b[1] + (lo \div Half)) % Half, lo % Half>>

Add5(a, b, c, d, e) ==
    LET lo == a[2] + b[2] + c[2] + d[2] + e[2]
    IN  <<(a[1] + b[1] + c[1] + d[1] + e[1] + (lo \div Half)) % Half, lo % Half>>

\* Bitwise a ^ b and a & b on n-bit operands, bit by bit.
RECURSIVE XorBits(_, _, _)
XorBits(a, b, n) ==
    IF n = 0 THEN 0 ELSE ((a + b) % 2) + 2 * XorBits(a \div 2, b \div 2, n - 1)

RECURSIVE AndBits(_, _, _)
AndBits(a, b, n) ==
    IF n = 0 THEN 0 ELSE ((a % 2) * (b % 2)) + 2 * AndBits(a \div 2, b \div 2, n - 1)

\* The same on bytes, tabulated once: entry [a + 1][b + 1].  (\o makes the
\* evaluator build the tuple instead of keeping the expression.)
XorTable == [a \in 1..256 |-> [b \in 1..256 |-> XorBits(a - 1, b - 1, 8)] \o <<>>] \o <<>>

AndTable == [a \in 1..256 |-> [b \in 1..256 |-> AndBits(a - 1, b - 1, 8)] \o <<>>] \o <<>>

\* a ^ b and a & b on the halves of a word.
XorHalf(a, b) ==
    256 * XorTable[(a \div 256) + 1][(b \div 256) + 1]
    + XorTable[(a % 256) + 1][(b % 256) + 1]

AndHalf(a, b) ==
    256 * AndTable[(a \div 256) + 1][(b \div 256) + 1]
    + AndTable[(a % 256) + 1][(b % 256) + 1]

\* The round function of SHA-1 on the halves of b, c, d:
\* Ch = (b & c) | (~b & d) = d ^ (b & (c ^ d)); Parity = b ^ c ^ d;
\* Maj = (b & c) | (b & d) | (c & d) = (b & c) + (d & (b ^ c)).
FHalf(t, b, c, d) ==
    IF t < 20 THEN XorHalf(d, AndHalf(b, XorHalf(c, d)))
    ELSE IF t < 40 THEN XorHalf(b, XorHalf(c, d))
    ELSE IF t < 60 THEN AndHalf(b, c) + AndHalf(d, XorHalf(b, c))
    ELSE XorHalf(b, XorHalf(c, d))

FWord(t, b, c, d) == <<FHalf(t, b[1], c[1], d[1]), FHalf(t, b[2], c[2], d[2])>>

Xor4(a, b, c, d) ==
    <<XorHalf(XorHalf(a[1], b[1]), XorHalf(c[1], d[1])),
      XorHalf(XorHalf(a[2], b[2]), XorHalf(c[2], d[2]))>>

\* 5A827999, 6ED9EBA1, 8F1BBCDC, CA62C1D6.
RoundK(t) ==
    IF t < 20 THEN <<23170, 31129>>
    ELSE IF t < 40 THEN <<28377, 60321>>
    ELSE IF t < 60 THEN <<36635, 48348>>
    ELSE <<51810, 49622>>

\* 67452301, EFCDAB89, 98BADCFE, 10325476, C3D2E1F0.
InitialHash ==
    <<(<<26437, 8961>>), (<<61389, 43913>>), (<<39098, 56574>>),
      (<<4146, 21622>>), (<<50130, 57840>>)>>

\* Message padding: 0x80, zeros to 56 mod 64, the bit length on 8 bytes.
RECURSIVE Zeros(_)
Zeros(n) == IF n = 0 THEN <<>> ELSE <<0>> \o Zeros(n - 1)

RECURSIVE BigEndian(_, _)
BigEndian(x, n) == IF n = 0 THEN <<>> ELSE Append(BigEndian(x \div 256, n - 1), x % 256)

Pad(msg) ==
    msg \o <<128>> \o Zeros((119 - Len(msg)) % 64) \o BigEndian(8 * Len(msg), 8)

\* The 16 big-endian words of block k (from 0) of the padded message.
BlockWords(m, k) ==
    [i \in 1..16 |->
        LET o == 64 * k + 4 * (i - 1)
        IN  <<256 * m[o + 1] + m[o + 2], 256 * m[o + 3] + m[o + 4]>>]

RECURSIVE Schedule(_)
Schedule(w) ==
    IF Len(w) = 80 THEN w
    ELSE LET i == Len(w) + 1
         IN  Schedule(Append(w, Rotl1(Xor4(w[i - 3], w[i - 8], w[i - 14], w[i - 16]))))

\* Rounds t..79 on the working state s = <<a, b, c, d, e>>.  (Len(s) makes
\* the evaluator compute s before the next round rather than after the last.)
RECURSIVE Rounds(_, _, _)
Rounds(s, w, t) ==
    IF t = 80 \/ Len(s) # 5 THEN s
    ELSE LET tmp == Add5(Rotl5(s[1]), FWord(t, s[2], s[3], s[4]),
                         s[5], RoundK(t), w[t + 1])
         IN  Rounds(<<tmp, s[1], Rotl30(s[2]), s[3], s[4]>>, w, t + 1)

Compress(h, block) ==
    LET s == Rounds(h, Schedule(block), 0)
    IN  [i \in 1..5 |-> Add2(h[i], s[i])]

RECURSIVE Blocks(_, _, _)
Blocks(h, m, k) ==
    IF 64 * k >= Len(m) THEN h ELSE Blocks(Compress(h, BlockWords(m, k)), m, k + 1)

HexChar(n) == IF n < 10 THEN 48 + n ELSE 87 + n

RECURSIVE HexHalf(_, _)
HexHalf(x, n) == IF n = 0 THEN <<>> ELSE Append(HexHalf(x \div 16, n - 1), HexChar(x % 16))

HexWord(w) == HexHalf(w[1], 4) \o HexHalf(w[2], 4)

\* sha1(bytes).hexdigest(): 40 lower-case hexadecimal characters.
Sha1Hex(bytes) ==
    LET h == Blocks(InitialHash, Pad(bytes), 0)
    IN  HexWord(h[1]) \o HexWord(h[2]) \o HexWord(h[3]) \o HexWord(h[4]) \o HexWord(h[5])


(***************************************************************************)
(* State                                                                   *)
(***************************************************************************)
VARIABLES
    permission,  \* User.permission of the user whose capabilities are asked
    canCall,     \* the last User.can call: its argument and what it returned
    anonCall,    \* the last AnonymousUser.can call, likewise
    salt,        \* app_config['USER_PASSWORD_SALT']
    user,        \* a User instance: its password and expired fields
    plain,       \* the plaintext whose hash User(...) or set_password stored last;
                 \* Nothing when none was given or the field was written directly
    mutations,   \* how often the stored hash was overwritten behind set_password
    raised,      \* the exception the last set_password call raised, None if it returned
    attempt,     \* a login attempt: the presented digest and the checks made of it
    article,     \* an Article instance, its author and category loaded
    dictCall,    \* the last Article.to_dict call: its flags and what it returned
    users,       \* table users: the ids of its rows
    categories,  \* table category: id -> row
    articles,    \* table article: id -> row
    comments,    \* table comment: id -> row
    events,      \* table event: id -> row
    foreign_keys,\* whether the database bound to database_proxy executes the
                 \* ON DELETE actions of the keys
    last         \* the last statement run on the store and the rows it found

permVars == <<permission, canCall, anonCall>>
credVars == <<salt, user, plain, mutations, raised, attempt>>
dictVars == <<article, dictCall>>
storeVars == <<users, categories, articles, comments, events, foreign_keys, last>>
vars == <<permVars, credVars, dictVars, storeVars>>

(***************************************************************************)
(* Permission model: User.can, AnonymousUser.can                           *)
(***************************************************************************)
\* Capabilities are bit positions 0..NumBits-1 of the permission bitmask.
NumBits == 4

Capabilities == 0..(NumBits - 1)

\* The bitmasks a user may hold; -1 is every bit set.
Masks == (-1)..(Pow2(NumBits) - 1)

NoCall == [made |-> FALSE, capability |-> 0, mask |-> 0, result |-> None]

\* Mutant of User.can: compares the bitmask with the capability's bit.
UserCanAtLeast(self_permission, arg) == PyBool(self_permission >= arg)

\* User.can(self, permission)
UserCan(self_permission, arg) == Bool(IntAnd(self_permission, arg))

\* AnonymousUser.can(self, permission): the body is `pass`.
AnonymousCan(arg) == None

InitPerm ==
    /\ permission = 0
    /\ canCall = NoCall
    /\ anonCall = NoCall

\* user.permission = m
SetPermission(m) ==
    /\ permission' = m
    /\ UNCHANGED <<canCall, anonCall, credVars, dictVars, storeVars>>

\* user.can(bit of capability c)
CallUserCan(c) ==
    /\ canCall' = [made |-> TRUE, capability |-> c, mask |-> permission,
                   result |-> UserCan(permission, Pow2(c))]
    /\ UNCHANGED <<permission, anonCall, credVars, dictVars, storeVars>>

\* AnonymousUser().can(bit of capability c)
CallAnonymousCan(c) ==
    /\ anonCall' = [made |-> TRUE, capability |-> c, mask |-> 0,
                    result |-> AnonymousCan(Pow2(c))]
    /\ UNCHANGED <<permission, canCall, credVars, dictVars, storeVars>>

(***************************************************************************)
(* Credential model: User.__init__, set_password, check_password           *)
(***************************************************************************)
Plains == {<<112, 119>>, <<115, 233, 99, 114, 101, 116>>}      \* "pw", "sécret"

\* A plaintext UTF-8 cannot encode: "d" and the lone surrogate U+D800.
Unencodable == <<100, 55296>>

Salts == {<<115, 52, 108, 116>>, <<120>>}                       \* "s4lt", "x"

Timestamps == {0, 1477958400}

\* Checks made of one presented digest, and overwrites of the stored hash.
MaxChecks == 2

MaxMutations == 1

MutPositions == {1, 40}

MutBits == {0}

\* User.set_password(self, plain_password) under salt s: the new password
\* field, or the exception encode raises before the field is assigned.
SetPassword(plain_password, s) ==
    IF Encodable(plain_password \o s)
    THEN Some(Sha1Hex(Encode(plain_password \o s)))
    ELSE UnicodeEncodeError

\* Mutant of User.__init__: keeps the keyword arguments as given, and does
\* not call set_password.
UserInitKeepsPlain(pw, e, s) == [password |-> pw, expired |-> e]

\* User.__init__(self, **kargs) with kargs = {password: pw, expired: e};
\* pw is optional.  Model.__init__ stores the keyword arguments as given;
\* an exception of set_password leaves the constructor, and no instance.
UserInit(pw, e, s) ==
    LET self == [password |-> pw, expired |-> e]
    IN  IF pw = Nothing THEN self
        ELSE IF Encodable(pw[1] \o s)
             THEN [self EXCEPT !.password = SetPassword(pw[1], s)]
             ELSE UnicodeEncodeError

\* Mutant of User.check_password: hashes the stored hash without the timestamp.
CheckPasswordNoTimestamp(self, enc_password, timestamp) ==
    IF self.password = Nothing THEN "TypeError"
    ELSE IF ~Encodable(self.password[1]) THEN UnicodeEncodeError
    ELSE PyBool(Sha1Hex(Encode(self.password[1])) = enc_password)

\* User.check_password(self, enc_password, timestamp); None + str raises,
\* and so does encode on a stored text with a surrogate.
CheckPassword(self, enc_password, timestamp) ==
    IF self.password = Nothing THEN "TypeError"
    ELSE IF ~Encodable(self.password[1] \o Str(timestamp)) THEN UnicodeEncodeError
    ELSE LET cipher == Sha1Hex(Encode(self.password[1] \o Str(timestamp)))
         IN  PyBool(cipher = enc_password)

\* User.is_active
IsActive(self) == ~self.expired

NoAttempt == [presented |-> FALSE, enc |-> <<>>, ts |-> 0, basis |-> Nothing, log |-> <<>>]

\* User(password=pw, expired=e) under some salt; pw may be missing.  The
\* instance exists when the constructor returned.
CredInit(saltChoices, expiredChoices) ==
    /\ salt \in saltChoices
    /\ \E pw \in {Nothing} \cup {Some(p) : p \in Plains \cup {Unencodable}},
          e \in expiredChoices :
          /\ pw # Nothing => Encodable(pw[1] \o salt)
          /\ user = UserInit(pw, e, salt)
          /\ plain = pw
    /\ mutations = 0
    /\ raised = None
    /\ attempt = NoAttempt

\* expired is left at its default, False.
InitCred == CredInit(Salts, {FALSE})

\* expired is given, under the salt "x".
InitExpired == CredInit({<<120>>}, BOOLEAN)

\* user.set_password(p): assigns the field, or raises and assigns nothing.
DoSetPassword(p) ==
    /\ IF Encodable(p \o salt)
       THEN /\ user' = [user EXCEPT !.password = SetPassword(p, salt)]
            /\ plain' = Some(p)
            /\ raised' = None
       ELSE /\ raised' = SetPassword(p, salt)
            /\ UNCHANGED <<user, plain>>
    /\ UNCHANGED <<salt, mutations, attempt, permVars, dictVars, storeVars>>

\* c with bit b inverted.
FlipBit(c, b) == IF (c \div Pow2(b)) % 2 = 1 THEN c - Pow2(b) ELSE c + Pow2(b)

\* user.password = <the stored hash with one bit of character i inverted>
MutateHash(i, b) ==
    /\ user.password # Nothing
    /\ mutations < MaxMutations
    /\ user' = [user EXCEPT !.password =
                    Some([user.password[1] EXCEPT ![i] = FlipBit(@, b)])]
    /\ plain' = Nothing
    /\ mutations' = mutations + 1
    /\ UNCHANGED <<salt, raised, attempt, permVars, dictVars, storeVars>>

\* The client derives the digest of the stored hash and timestamp t.
PresentDerived(t) ==
    /\ ~attempt.presented
    /\ user.password # Nothing
    /\ attempt' = [presented |-> TRUE,
                   enc |-> Sha1Hex(Encode(user.password[1] \o Str(t))),
                   ts |-> t, basis |-> user.password, log |-> <<>>]
    /\ UNCHANGED <<salt, user, plain, mutations, raised, permVars, dictVars, storeVars>>

\* The client presents the stored hash itself instead.
PresentForged(t) ==
    /\ ~attempt.presented
    /\ user.password # Nothing
    /\ attempt' = [presented |-> TRUE, enc |-> user.password[1], ts |-> t,
                   basis |-> Nothing, log |-> <<>>]
    /\ UNCHANGED <<salt, user, plain, mutations, raised, permVars, dictVars, storeVars>>

\* user.check_password(attempt.enc, attempt.ts)
DoCheckPassword ==
    /\ attempt.presented
    /\ Len(attempt.log) < MaxChecks
    /\ attempt' = [attempt EXCEPT !.log =
                      Append(@, [same |-> user.password = attempt.basis,
                                 result |-> CheckPassword(user, attempt.enc, attempt.ts)])]
    /\ UNCHANGED <<salt, user, plain, mutations, raised, permVars, dictVars, storeVars>>

(***************************************************************************)
(* Serialization: Article.to_dict                                          *)
(***************************************************************************)
\* A loaded related row, as to_dict reads it.
Alice == [id |-> "u1", name |-> "alice"]

News == [id |-> "c1", name |-> "news"]

Rendered == "<p>hi</p>"

ReadCounts == {0, 7}

\* Article(**kargs): Model.__init__ stores the keyword arguments; the other
\* fields are as the caller always supplies them.
ArticleInit(author, category, content, public, is_commentable, read_count) ==
    [id |-> "a1", title |-> "Hello", author |-> author, category |-> category,
     content |-> content, public |-> public, is_commentable |-> is_commentable,
     read_count |-> read_count, post_time |-> 1477958400, update_time |-> 1477958401,
     text_type |-> "markdown", source_text |-> "hi"]

\* `if self.author:` on a related instance or None.
Truthy(related) == related # Nothing

\* The nested OrderedDict of an author or category.
RelatedDict(row) == <<(<<"id", row.id>>), (<<"name", row.name>>)>>

\* Mutant of Article.to_dict: sets content after update_time.
ToDictContentLast(self, with_content, with_src) ==
    <<(<<"id", self.id>>), (<<"title", self.title>>)>>
    \o (IF Truthy(self.author)
        THEN <<(<<"author", RelatedDict(self.author[1])>>)>> ELSE <<>>)
    \o (IF Truthy(self.category)
        THEN <<(<<"category", RelatedDict(self.category[1])>>)>> ELSE <<>>)
    \o <<(<<"public", self.public>>), (<<"is_commentable", self.is_commentable>>),
         (<<"read_count", self.read_count>>), (<<"post_time", self.post_time>>),
         (<<"update_time", self.update_time>>)>>
    \o (IF with_content THEN <<(<<"content", self.content>>)>> ELSE <<>>)
    \o (IF with_src
        THEN <<(<<"text_type", self.text_type>>), (<<"source_text", self.source_text>>)>>
        ELSE <<>>)

\* Article.to_dict(self, with_content, with_src): the OrderedDict as the
\* sequence of its <<key, value>> items.
ToDict(self, with_content, with_src) ==
    <<(<<"id", self.id>>), (<<"title", self.title>>)>>
    \o (IF Truthy(self.author)
        THEN <<(<<"author", RelatedDict(self.author[1])>>)>> ELSE <<>>)
    \o (IF Truthy(self.category)
        THEN <<(<<"category", RelatedDict(self.category[1])>>)>> ELSE <<>>)
    \o (IF with_content THEN <<(<<"content", self.content>>)>> ELSE <<>>)
    \o <<(<<"public", self.public>>), (<<"is_commentable", self.is_commentable>>),
         (<<"read_count", self.read_count>>), (<<"post_time", self.post_time>>),
         (<<"update_time", self.update_time>>)>>
    \o (IF with_src
        THEN <<(<<"text_type", self.text_type>>), (<<"source_text", self.source_text>>)>>
        ELSE <<>>)

NoDict == [made |-> FALSE, with_content |-> FALSE, with_src |-> FALSE, rv |-> <<>>]

\* Article(...) with the field defaults: commentable, public, never read.
InitDict ==
    /\ article = ArticleInit(Nothing, Nothing, Nothing, TRUE, TRUE, 0)
    /\ dictCall = NoDict

\* article = Article(author=..., category=..., content=..., ...)
NewArticle(author, category, content, public, is_commentable, read_count) ==
    /\ article' = ArticleInit(author, category, content, public, is_commentable, read_count)
    /\ dictCall' = NoDict
    /\ UNCHANGED <<permVars, credVars, storeVars>>

\* article.to_dict(with_content=wc, with_src=ws)
CallToDict(wc, ws) ==
    /\ dictCall' = [made |-> TRUE, with_content |-> wc, with_src |-> ws,
                    rv |-> ToDict(article, wc, ws)]
    /\ UNCHANGED <<article, permVars, credVars, storeVars>>

(***************************************************************************)
(* The store: the five tables and their foreign keys                       *)
(***************************************************************************)
UserIds == {"u1", "u2"}

CategoryIds == {"c1", "c2"}

ArticleIds == {"a1", "a2"}

\* Rows the store may hold at once, all tables together.
MaxRows == 5

\* The highest id the store hands out to a comment or an event.
MaxId == 3

\* NULL in the integer column Comment.reply_to (ids start at 1).
NullId == 0

Max(S) == CHOOSE m \in S : \A k \in S : k <= m

\* The id given to a new row of a table with the implicit integer key.
NextId(table) == IF DOMAIN table = {} THEN 1 ELSE Max(DOMAIN table) + 1

\* Mutants of the keys' declarations: another on_delete.
ArticleCategoryCascade == "CASCADE"

ArticleAuthorCascade == "CASCADE"

CommentReplyToNoAction == "NO ACTION"

EventUserSetNull == "SET NULL"

\* ForeignKeyField(..., on_delete=...), by referencing column.
CategoryCreateByOnDelete == "SET NULL"

ArticleCategoryOnDelete == "SET NULL"

ArticleAuthorOnDelete == "SET NULL"

CommentUserOnDelete == "CASCADE"

CommentArticleOnDelete == "CASCADE"

CommentReplyToOnDelete == "SET NULL"

EventUserOnDelete == "CASCADE"

\* The rows of `table` whose column `field` references a row of `gone`.
Referencing(table, field, gone) == {k \in DOMAIN table : table[k][field] \in gone}

\* Those that the delete of `gone` deletes in turn.
Cascaded(table, field, policy, gone) ==
    IF policy = "CASCADE" THEN Referencing(table, field, gone) ELSE {}

\* `table` without the rows `dropped`.
Drop(table, dropped) == [k \in DOMAIN table \ dropped |-> table[k]]

\* `table` with column `field` set to `null` where it references a row of `gone`.
Nulled(table, field, policy, gone, null) ==
    [k \in DOMAIN table |->
        IF policy = "SET NULL" /\ table[k][field] \in gone
        THEN [table[k] EXCEPT ![field] = null]
        ELSE table[k]]

\* All rows a delete of the rows g removes: g and, repeatedly, the rows that
\* reference a removed row through an ON DELETE CASCADE key.
RECURSIVE Closure(_)
Closure(g) ==
    LET h == [users |-> g.users,
              categories |-> g.categories
                  \cup Cascaded(categories, "create_by", CategoryCreateByOnDelete, g.users),
              articles |-> g.articles
                  \cup Cascaded(articles, "category", ArticleCategoryOnDelete, g.categories)
                  \cup Cascaded(articles, "author", ArticleAuthorOnDelete, g.users),
              comments |-> g.comments
                  \cup Cascaded(comments, "user", CommentUserOnDelete, g.users)
                  \cup Cascaded(comments, "article", CommentArticleOnDelete, g.articles)
                  \cup Cascaded(comments, "reply_to", CommentReplyToOnDelete, g.comments),
              events |-> g.events
                  \cup Cascaded(events, "user", EventUserOnDelete, g.users)]
    IN  IF h = g THEN g ELSE Closure(h)

NoRows == [users |-> {}, categories |-> {}, articles |-> {}, comments |-> {}, events |-> {}]

\* What the last statement was and, for a DELETE of `target` that removed
\* the rows g, how many rows of each table referenced the deleted row when
\* it ran, and how many comments outlived the comment they replied to.
Statement(op, target, g) ==
    [op |-> op,
     orphans |-> Cardinality(Referencing(comments, "reply_to", g.comments) \ g.comments),
     categories |-> Cardinality(Referencing(categories, "create_by", target.users)),
     articles |-> Cardinality(Referencing(articles, "category", target.categories)
                              \cup Referencing(articles, "author", target.users)),
     comments |-> Cardinality(Referencing(comments, "user", target.users)
                              \cup Referencing(comments, "article", target.articles)
                              \cup Referencing(comments, "reply_to", target.comments)),
     events |-> Cardinality(Referencing(events, "user", target.users))]

\* A statement that deletes nothing.
Plain(op) ==
    [op |-> op, orphans |-> 0, categories |-> 0, articles |-> 0, comments |-> 0,
     events |-> 0]

\* The action the database takes for a key declared with `policy`: the
\* declared one where it executes ON DELETE actions, none where it does not
\* (the declaration is then no more than a part of CREATE TABLE).
Applied(policy) == IF foreign_keys THEN policy ELSE "NOT ENFORCED"

\* DELETE of the rows `target`: with the ON DELETE actions of every key on a
\* database that executes them, of the rows `target` alone on one that does
\* not.
DeleteRows(op, target) ==
    LET g == IF foreign_keys THEN Closure(target) ELSE target
    IN  /\ users' = users \ g.users
        /\ categories' =
              Nulled(Drop(categories, g.categories),
                     "create_by", Applied(CategoryCreateByOnDelete), g.users, None)
        /\ articles' =
              Nulled(Nulled(Drop(articles, g.articles),
                            "category", Applied(ArticleCategoryOnDelete), g.categories, None),
                     "author", Applied(ArticleAuthorOnDelete), g.users, None)
        /\ comments' =
              Nulled(Nulled(Drop(comments, g.comments),
                            "user", Applied(CommentUserOnDelete), g.users, None),
                     "reply_to", Applied(CommentReplyToOnDelete), g.comments, NullId)
        /\ events' =
              Nulled(Drop(events, g.events), "user", Applied(EventUserOnDelete), g.users, None)
        /\ last' = Statement(op, target, g)
        /\ UNCHANGED foreign_keys

RowCount ==
    Cardinality(users) + Cardinality(DOMAIN categories) + Cardinality(DOMAIN articles)
    + Cardinality(DOMAIN comments) + Cardinality(DOMAIN events)

\* current_user.get_id(): a logged-in user's id, or None for the anonymous user.
CurrentUsers == users \cup {None}

\* The empty tables on a database of the given kind.
StoreInit(enforcing) ==
    /\ foreign_keys = enforcing
    /\ users = {}
    /\ categories = <<>>
    /\ articles = <<>>
    /\ comments = <<>>
    /\ events = <<>>
    /\ last = Plain("none")

\* The store the application runs on: the database bound to database_proxy
\* executes the ON DELETE actions of the keys, atomically with the DELETE.
InitStore == StoreInit(TRUE)

\* The same tables on a database that executes no ON DELETE action, as
\* SQLite does on a connection that leaves PRAGMA foreign_keys off.
InitUnenforced == StoreInit(FALSE)

\* User.create(id=u, ...)
CreateUser(u) ==
    /\ RowCount < MaxRows
    /\ u \notin users
    /\ users' = users \cup {u}
    /\ last' = Plain("insert")
    /\ UNCHANGED <<categories, articles, comments, events, foreign_keys,
                   permVars, credVars, dictVars>>

\* Category.create(id=c, ...): create_by defaults to _get_user().
CreateCategory(c, cur) ==
    /\ RowCount < MaxRows
    /\ c \notin DOMAIN categories
    /\ categories' = [k \in DOMAIN categories \cup {c} |->
                         IF k = c THEN [create_by |-> cur] ELSE categories[k]]
    /\ last' = Plain("insert")
    /\ UNCHANGED <<users, articles, comments, events, foreign_keys,
                   permVars, credVars, dictVars>>

\* Article.create(id=a, category=cat, ...): author defaults to _get_user().
CreateArticle(a, cat, cur) ==
    /\ RowCount < MaxRows
    /\ a \notin DOMAIN articles
    /\ articles' = [k \in DOMAIN articles \cup {a} |->
                       IF k = a THEN [category |-> cat, author |-> cur, title |-> "Hello"]
                       ELSE articles[k]]
    /\ last' = Plain("insert")
    /\ UNCHANGED <<users, categories, comments, events, foreign_keys,
                   permVars, credVars, dictVars>>

\* Comment.create(article=a, reply_to=r, ...): user defaults to _get_user().
CreateComment(a, r, cur) ==
    /\ RowCount < MaxRows
    /\ NextId(comments) <= MaxId
    /\ comments' = [k \in DOMAIN comments \cup {NextId(comments)} |->
                       IF k = NextId(comments)
                       THEN [user |-> cur, article |-> a, reply_to |-> r]
                       ELSE comments[k]]
    /\ last' = Plain("insert")
    /\ UNCHANGED <<users, categories, articles, events, foreign_keys,
                   permVars, credVars, dictVars>>

\* Event.create(type=..., description=...): user defaults to _get_user().
CreateEvent(cur) ==
    /\ RowCount < MaxRows
    /\ NextId(events) <= MaxId
    /\ events' = [k \in DOMAIN events \cup {NextId(events)} |->
                     IF k = NextId(events)
                     THEN [user |-> cur, type |-> "login"]
                     ELSE events[k]]
    /\ last' = Plain("insert")
    /\ UNCHANGED <<users, categories, articles, comments, foreign_keys,
                   permVars, credVars, dictVars>>

\* user.delete_instance()
DeleteUser(u) ==
    /\ u \in users
    /\ DeleteRows("delete_user", [NoRows EXCEPT !.users = {u}])
    /\ UNCHANGED <<permVars, credVars, dictVars>>

\* category.delete_instance()
DeleteCategory(c) ==
    /\ c \in DOMAIN categories
    /\ DeleteRows("delete_category", [NoRows EXCEPT !.categories = {c}])
    /\ UNCHANGED <<permVars, credVars, dictVars>>

\* article.delete_instance()
DeleteArticle(a) ==
    /\ a \in DOMAIN articles
    /\ DeleteRows("delete_article", [NoRows EXCEPT !.articles = {a}])
    /\ UNCHANGED <<permVars, credVars, dictVars>>

\* comment.delete_instance()
DeleteComment(k) ==
    /\ k \in DOMAIN comments
    /\ DeleteRows("delete_comment", [NoRows EXCEPT !.comments = {k}])
    /\ UNCHANGED <<permVars, credVars, dictVars>>

(***************************************************************************)
(* Specifications                                                          *)
(***************************************************************************)
\* A user constructed from a plaintext password, or from none, under some salt.
Init == InitPerm /\ InitCred /\ InitDict /\ InitStore

\* A user constructed with the expired flag given.
InitAnyExpired == InitPerm /\ InitExpired /\ InitDict /\ InitStore

\* The same with the one user User(): no password given, not expired.
InitNoPassword ==
    /\ InitPerm
    /\ salt = <<>>
    /\ user = UserInit(Nothing, FALSE, salt)
    /\ plain = Nothing
    /\ mutations = 0
    /\ raised = None
    /\ attempt = NoAttempt
    /\ InitDict
    /\ InitStore

NextPerm ==
    \/ \E m \in Masks : SetPermission(m)
    \/ \E c \in Capabilities : CallUserCan(c)
    \/ \E c \in Capabilities : CallAnonymousCan(c)

NextCred ==
    \/ \E p \in Plains \cup {Unencodable} : DoSetPassword(p)
    \/ \E i \in MutPositions, b \in MutBits : MutateHash(i, b)
    \/ \E t \in Timestamps : PresentDerived(t)
    \/ \E t \in Timestamps : PresentForged(t)
    \/ DoCheckPassword

NextDict ==
    \/ \E author \in {Nothing, Some(Alice)}, category \in {Nothing, Some(News)},
          content \in {Nothing, Some(Rendered)}, public \in BOOLEAN,
          is_commentable \in BOOLEAN, read_count \in ReadCounts :
          NewArticle(author, category, content, public, is_commentable, read_count)
    \/ \E wc \in BOOLEAN, ws \in BOOLEAN : CallToDict(wc, ws)

NextStore ==
    \/ \E u \in UserIds : CreateUser(u)
    \/ \E c \in CategoryIds, cur \in CurrentUsers : CreateCategory(c, cur)
    \/ \E a \in ArticleIds, cat \in DOMAIN categories \cup {None}, cur \in CurrentUsers :
          CreateArticle(a, cat, cur)
    \/ \E a \in DOMAIN articles, r \in DOMAIN comments \cup {NullId}, cur \in CurrentUsers :
          CreateComment(a, r, cur)
    \/ \E cur \in CurrentUsers : CreateEvent(cur)
    \/ \E u \in users : DeleteUser(u)
    \/ \E c \in DOMAIN categories : DeleteCategory(c)
    \/ \E a \in DOMAIN articles : DeleteArticle(a)
    \/ \E k \in DOMAIN comments : DeleteComment(k)

\* The permission model alone.
SpecPerm == InitNoPassword /\ [][NextPerm]_vars

\* The credential model alone.
SpecCred == Init /\ [][NextCred]_vars

\* The credential model of users that may be expired.
SpecExpired == InitAnyExpired /\ [][NextCred]_vars

\* Serialization alone.
SpecDict == InitNoPassword /\ [][NextDict]_vars

\* The store alone.
SpecStore == InitNoPassword /\ [][NextStore]_vars

\* The store alone, on a database that executes no ON DELETE action.
SpecUnenforced ==
    /\ InitPerm
    /\ salt = <<>>
    /\ user = UserInit(Nothing, FALSE, salt)
    /\ plain = Nothing
    /\ mutations = 0
    /\ raised = None
    /\ attempt = NoAttempt
    /\ InitDict
    /\ InitUnenforced
    /\ [][NextStore]_vars

(***************************************************************************)
(* Permission model: properties                                            *)
(***************************************************************************)
\* Bit c of the two's-complement integer m.
Bit(m, c) == (m \div Pow2(c)) % 2

\* C1: User.can(bit of c) on a user with bitmask m returns exactly
\* bool(m & bit(c)), true iff bit c of m is set; with m = 0 it returns False
\* for every capability.
CanIsBitTest ==
    canCall.made =>
        /\ canCall.result = PyBool(Bit(canCall.mask, canCall.capability) = 1)
        /\ canCall.mask = 0 => canCall.result = "False"

\* A user holding capabilities 0 and 2 was asked for capability 2.
CanIsBitTestWitness ==
    /\ canCall.made
    /\ canCall.mask = 5
    /\ canCall.capability = 2
    /\ canCall.result = "True"

\* C2: AnonymousUser.can returns the boolean False for every capability.
AnonymousCanIsFalse == anonCall.made => anonCall.result = "False"

(***************************************************************************)
(* Credential model: properties                                            *)
(***************************************************************************)
\* C3: a digest derived from the stored hash and a timestamp passes
\* check_password with that timestamp while the stored hash is the one it
\* was derived from, and fails once the stored hash is any other value.
ChallengeRoundTrip ==
    attempt.basis # Nothing =>
        \A i \in 1..Len(attempt.log) :
            attempt.log[i].result = PyBool(attempt.log[i].same)

\* The derived digest passed, the stored hash changed, the same digest failed.
ChallengeRoundTripWitness ==
    /\ attempt.basis # Nothing
    /\ Len(attempt.log) = 2
    /\ attempt.log[1] = [same |-> TRUE, result |-> "True"]
    /\ attempt.log[2] = [same |-> FALSE, result |-> "False"]

IsHexDigest(t) ==
    /\ Len(t) = 40
    /\ \A i \in 1..Len(t) : t[i] \in (48..57) \cup (97..102)

\* C4: after User(password=p) and any set_password calls the password field
\* holds digest(p + salt) of the latest plaintext p, hashed once, never p.
PasswordIsSaltedHash ==
    plain # Nothing =>
        /\ user.password = Some(Sha1Hex(Encode(plain[1] \o salt)))
        /\ IsHexDigest(user.password[1])
        /\ user.password # plain

\* set_password ran on a user whose password field had been overwritten,
\* and then raised on a plaintext UTF-8 cannot encode.
PasswordIsSaltedHashWitness ==
    /\ plain # Nothing
    /\ mutations = 1
    /\ raised = UnicodeEncodeError
    /\ IsHexDigest(user.password[1])

\* C5: for a user whose expired flag is true no credential check succeeds.
ExpiredNeverAuthenticates ==
    user.expired =>
        \A i \in 1..Len(attempt.log) : attempt.log[i].result # "True"

(***************************************************************************)
(* Serialization: properties                                               *)
(***************************************************************************)
Keys(rv) == [i \in 1..Len(rv) |-> rv[i][1]]

Range(seq) == {seq[i] : i \in 1..Len(seq)}

Position(seq, key) == CHOOSE i \in 1..Len(seq) : seq[i] = key

FlagKeys == {"content", "text_type", "source_text"}

\* The keys no flag governs, in their order.
PlainKeys ==
    <<"id", "title", "author", "category", "public", "is_commentable",
      "read_count", "post_time", "update_time">>

\* C9: to_dict() emits none of content, text_type, source_text; with_content
\* adds content immediately before public, after author and category;
\* with_src adds text_type then source_text as the last two keys; the other
\* keys keep one order whatever the flags.
ToDictKeyOrder ==
    dictCall.made =>
        LET ks == Keys(dictCall.rv)
            n == Len(ks)
            IsPlain(k) == k \notin FlagKeys
            Emitted(k) == k \in Range(ks)
        IN  /\ ("content" \in Range(ks)) = dictCall.with_content
            /\ ("text_type" \in Range(ks)) = dictCall.with_src
            /\ ("source_text" \in Range(ks)) = dictCall.with_src
            /\ Cardinality(Range(ks)) = n
            /\ dictCall.with_content =>
                  /\ Position(ks, "content") + 1 = Position(ks, "public")
                  /\ \A k \in {"author", "category"} \cap Range(ks) :
                        Position(ks, k) < Position(ks, "content")
            /\ dictCall.with_src => ks[n - 1] = "text_type" /\ ks[n] = "source_text"
            /\ SelectSeq(ks, IsPlain) = SelectSeq(PlainKeys, Emitted)
            /\ ("author" \in Range(ks)) = (article.author # Nothing)
            /\ ("category" \in Range(ks)) = (article.category # Nothing)

\* Both flags on an article that has an author and a category.
ToDictKeyOrderWitness ==
    /\ dictCall.made
    /\ dictCall.with_content
    /\ dictCall.with_src
    /\ article.author # Nothing
    /\ article.category # Nothing
    /\ Len(dictCall.rv) = 12

(***************************************************************************)
(* The store: properties                                                   *)
(***************************************************************************)
\* `row` with column `field` NULL where it referenced `key`.
Unlinked(row, field, key) == IF row[field] = key THEN [row EXCEPT ![field] = None] ELSE row

\* C6: deleting a user removes every comment and event that references the
\* user; every article and category stays, its reference to the user NULL.
DeleteUserCascades ==
    [][\A u \in UserIds : (u \in users /\ u \notin users') =>
          /\ \A k \in DOMAIN comments : comments[k].user = u => k \notin DOMAIN comments'
          /\ \A e \in DOMAIN events : events[e].user = u => e \notin DOMAIN events'
          /\ DOMAIN articles' = DOMAIN articles
          /\ \A a \in DOMAIN articles : articles'[a] = Unlinked(articles[a], "author", u)
          /\ DOMAIN categories' = DOMAIN categories
          /\ \A c \in DOMAIN categories :
                categories'[c] = Unlinked(categories[c], "create_by", u)]_vars

\* A user was deleted who had a category, an article, a comment and an event.
DeleteUserCascadesWitness ==
    /\ last.op = "delete_user"
    /\ last.categories >= 1
    /\ last.articles >= 1
    /\ last.comments >= 1
    /\ last.events >= 1
    /\ DOMAIN articles # {}
    /\ DOMAIN categories # {}

\* C7: deleting a category deletes no article; its articles stay with
\* category NULL and nothing else changed, other articles are untouched.
DeleteCategoryKeepsArticles ==
    [][\A c \in CategoryIds : (c \in DOMAIN categories /\ c \notin DOMAIN categories') =>
          /\ DOMAIN articles' = DOMAIN articles
          /\ \A a \in DOMAIN articles :
                articles'[a] = Unlinked(articles[a], "category", c)]_vars

\* A category with an article was deleted; an article of another category is there.
DeleteCategoryKeepsArticlesWitness ==
    /\ last.op = "delete_category"
    /\ last.articles >= 1
    /\ \E a \in DOMAIN articles : articles[a].category = None
    /\ \E a \in DOMAIN articles : articles[a].category \in DOMAIN categories

\* C8 as claimed: an event row, once created, is present and unchanged in
\* every later state.
EventsAppendOnly ==
    [][\A e \in DOMAIN events : e \in DOMAIN events' /\ events'[e] = events[e]]_vars

\* C8 as amended: an event row stays, unchanged, through every creation and
\* deletion, except that the deletion of the user it references removes it
\* (and the deletion of that user always does).
EventsKeptUntilUserDeleted ==
    [][\A e \in DOMAIN events :
          \/ /\ e \in DOMAIN events'
             /\ events'[e] = events[e]
             /\ events[e].user \notin users \ users'
          \/ /\ events[e].user \in users \ users'
             /\ e \notin DOMAIN events']_vars

\* A user with an event was deleted and the event of somebody else is there.
EventsKeptUntilUserDeletedWitness ==
    /\ last.op = "delete_user"
    /\ last.events >= 1
    /\ DOMAIN events # {}

\* Every foreign key names an existing row or is NULL.
ForeignKeysHold ==
    /\ \A k \in DOMAIN comments :
          /\ comments[k].article \in DOMAIN articles
          /\ comments[k].user \in users \cup {None}
          /\ comments[k].reply_to \in DOMAIN comments \cup {NullId}
    /\ \A e \in DOMAIN events : events[e].user \in users \cup {None}
    /\ \A a \in DOMAIN articles :
          /\ articles[a].author \in users \cup {None}
          /\ articles[a].category \in DOMAIN categories \cup {None}
    /\ \A c \in DOMAIN categories : categories[c].create_by \in users \cup {None}

\* C10: in every state every comment's article exists and every non-NULL
\* Comment.user, Comment.reply_to, Event.user, Article.author,
\* Article.category and Category.create_by names an existing row; deleting
\* an article removes all its comments, and a comment that outlives the
\* comment it replied to has reply_to NULL and is otherwise as it was.
ReferentialIntegrity ==
    /\ []ForeignKeysHold
    /\ [][/\ \A a \in DOMAIN articles \ DOMAIN articles' :
                \A k \in DOMAIN comments :
                    comments[k].article = a => k \notin DOMAIN comments'
          /\ \A k \in DOMAIN comments \cap DOMAIN comments' :
                comments[k].reply_to \in DOMAIN comments \ DOMAIN comments' =>
                    comments'[k] = [comments[k] EXCEPT !.reply_to = NullId]]_vars

\* An article with a comment was deleted; a reply to that comment, made on
\* the other article, is there with reply_to NULL.
ReferentialIntegrityWitness ==
    /\ last.op = "delete_article"
    /\ last.comments >= 1
    /\ last.orphans >= 1
    /\ \E k \in DOMAIN comments : comments[k].reply_to = NullId
====
